---- MODULE Spec2Model ----
(***************************************************************************)
(* MindPulse: the risk scorer (pages/user_dashboard_2.py,                  *)
(* compute_risk_score) and the per-submission label (_risk_label).         *)
(*                                                                         *)
(* Numbers.  A Python float is modelled as a record [nan, c]: nan says the *)
(* value is NaN, c is the value in hundredths (0.45 is 45, 10.0 is 1000).  *)
(* All inputs of the model are whole numbers, so every sum and product of  *)
(* the scorer is a whole number of hundredths.  The binary rounding error  *)
(* of the real doubles (about 1e-15) is far below 0.01 and can change the  *)
(* result in one place only: round(x, 1) when x is exactly half way        *)
(* between two tenths.  There the double the code holds lies just below or *)
(* just above the tie, and round() follows it; the variable ulp says which *)
(* of the two it is for the submission at hand.                            *)
(*                                                                         *)
(* Values.  A value held by the attribute mapping is a record [t, n, s,    *)
(* pad]: t is its Python type ("missing" for an absent key, "none", "int", *)
(* "nan" for float('nan'), "str"), n the integer, s the text of a string   *)
(* without its surrounding whitespace, pad whether the string has          *)
(* surrounding whitespace.                                                 *)
(***************************************************************************)
EXTENDS Integers, Sequences, FiniteSets, TLC

VARIABLES form_data, ulp, pc, raised, base, nudges, score, risk_label,
          xy, labels, row_risk, bucket,
          csv, sidebar, now, view,
          session_state, user_inputs, runs,
          users, auth_session, auth_ret, reg,
          file, cache, backups, audit, admin_op, usess, saved, deleted

vars == <<form_data, ulp, pc, raised, base, nudges, score, risk_label,
          xy, labels, row_risk, bucket, csv, sidebar, now, view,
          session_state, user_inputs, runs,
          users, auth_session, auth_ret, reg,
          file, cache, backups, audit, admin_op, usess, saved, deleted>>

scoreVars == <<form_data, ulp, pc, raised, base, nudges, score, risk_label>>
labelVars == <<xy, labels>>
\* the admin's risk of one row, and the analytics bucket of one value
rowVars == <<row_risk, bucket>>
\* the submission store, the admin sidebar, the clock, the admin page
aggVars == <<csv, sidebar, now, view>>
\* the user's session, the rows this session appended to the submission
\* store, the number of runs of the user page
userVars == <<session_state, user_inputs, runs>>
\* the users file, the login page's session, what the last call of the
\* auth module returned, and the register calls in progress
authVars == <<users, auth_session, auth_ret, reg>>
\* the submission store file, the cached copy of _safe_load_inputs, the
\* admin session's backups and audit log, the admin's last run, the user
\* sessions' saves in progress, and the history of the submissions saved
\* by users and removed by the administrator
storeVars == <<file, cache, backups, audit, admin_op, usess, saved, deleted>>

(* ------------------------------ bounds -------------------------------- *)
\* whole-number levels run from -LevelMargin to 10 + LevelMargin
LevelMargin == 1
\* the label is applied to every tenth from 0 to GridTenths tenths
GridTenths == 100
\* the submission store holds at most MaxRows rows
MaxRows == 2
\* the user page runs at most MaxRuns times in a session
MaxRuns == 6
\* the users file holds at most MaxUsers rows
MaxUsers == 2

(* ------------------------------ floats -------------------------------- *)
F(c) == [nan |-> FALSE, c |-> c]
NaN == [nan |-> TRUE, c |-> 0]

FAdd(x, y) == IF x.nan \/ y.nan THEN NaN ELSE F(x.c + y.c)
FMul(x, y) == IF x.nan \/ y.nan THEN NaN ELSE F((x.c * y.c) \div 100)
\* every comparison with NaN is False
FLt(x, y) == ~x.nan /\ ~y.nan /\ x.c < y.c
FLe(x, y) == ~x.nan /\ ~y.nan /\ x.c <= y.c
FGe(x, y) == FLe(y, x)

\* builtin min(a, b) / max(a, b): the first argument is kept unless the
\* second compares strictly smaller / larger
PyMin(a, b) == IF FLt(b, a) THEN b ELSE a
PyMax(a, b) == IF FLt(a, b) THEN b ELSE a

\* builtin round(x, 1) on a float: the nearest tenth; on an exact tie of
\* the decimal value the double lies below or above it (u) and decides
PyRound1(x, u) ==
    IF x.nan THEN NaN
    ELSE LET r == x.c % 10
         IN  IF r < 5 THEN F(x.c - r)
             ELSE IF r > 5 THEN F(x.c - r + 10)
             ELSE IF u = "above" THEN F(x.c + 5) ELSE F(x.c - 5)

(* ------------------------------ values -------------------------------- *)
Missing == [t |-> "missing", n |-> 0, s |-> "", pad |-> FALSE]
PyNone == [t |-> "none", n |-> 0, s |-> "", pad |-> FALSE]
MkInt(i) == [t |-> "int", n |-> i, s |-> "", pad |-> FALSE]
MkNaN == [t |-> "nan", n |-> 0, s |-> "", pad |-> FALSE]
MkStr(txt) == [t |-> "str", n |-> 0, s |-> txt, pad |-> FALSE]
Padded(txt) == [t |-> "str", n |-> 0, s |-> txt, pad |-> TRUE]

\* the numeric literals among the texts of the model, as float() reads them
NumText == ("8" :> 8) @@ ("0" :> 0)

\* dict.get(key, default)
Get(fd, key, default) == IF fd[key].t = "missing" THEN default ELSE fd[key]

\* truth value of an object, as `x or y` tests it
Truthy(x) ==
    CASE x.t = "none" -> FALSE
      [] x.t = "int" -> x.n # 0
      [] x.t = "nan" -> TRUE
      [] x.t = "str" -> ~(x.s = "" /\ ~x.pad)
      [] OTHER -> FALSE
PyOr(x, y) == IF Truthy(x) THEN x ELSE y

\* str.strip(); only a str has the method
HasStrip(x) == x.t = "str"
Strip(x) == [x EXCEPT !.pad = FALSE]

\* x in {literals} and x == literal, for a str x
StrIn(x, S) == x.t = "str" /\ ~x.pad /\ x.s \in S

\* float(x) succeeds: numbers, and strings holding a numeric literal
\* (float() ignores surrounding whitespace); None and other text raise
FloatOk(x) ==
    \/ x.t \in {"int", "nan"}
    \/ x.t = "str" /\ x.s \in DOMAIN NumText
FloatOf(x) ==
    CASE x.t = "int" -> F(100 * x.n)
      [] x.t = "nan" -> NaN
      [] OTHER -> F(100 * NumText[x.s])

(* --------------------------- the risk model --------------------------- *)
_num_default5(x) == IF FloatOk(x) THEN FloatOf(x) ELSE F(500)
_num(x) == IF FloatOk(x) THEN FloatOf(x) ELSE F(0)

SleepNudge_below5(sleep) ==
    IF FLt(sleep, F(500)) THEN F(40)
    ELSE IF FLe(F(700), sleep) /\ FLe(sleep, F(900)) THEN F(0 - 20)
    ELSE F(0)
SleepNudge(sleep) ==
    IF FLt(sleep, F(600)) THEN F(40)
    ELSE IF FLe(F(700), sleep) /\ FLe(sleep, F(900)) THEN F(0 - 20)
    ELSE F(0)

ExerciseNudge(exercise) ==
    IF StrIn(exercise, {"None"}) THEN F(20)
    ELSE IF StrIn(exercise, {"3-5 days/week", "Daily"}) THEN F(0 - 20)
    ELSE F(0)

DietNudge(diet) ==
    IF StrIn(diet, {"Poor"}) THEN F(20)
    ELSE IF StrIn(diet, {"Good", "Excellent"}) THEN F(0 - 10)
    ELSE F(0)

WlbNudge_poor02(wlb) ==
    IF StrIn(wlb, {"Poor"}) THEN F(20)
    ELSE IF StrIn(wlb, {"Good", "Excellent"}) THEN F(0 - 10)
    ELSE F(0)
WlbNudge(wlb) ==
    IF StrIn(wlb, {"Poor"}) THEN F(30)
    ELSE IF StrIn(wlb, {"Good", "Excellent"}) THEN F(0 - 10)
    ELSE F(0)

SocialNudge(social) ==
    IF StrIn(social, {"Rarely"}) THEN F(20)
    ELSE IF StrIn(social, {"Often", "Daily"}) THEN F(0 - 10)
    ELSE F(0)

PastNudge_01(pmi) == IF StrIn(pmi, {"Yes"}) THEN F(10) ELSE F(0)
PastNudge(pmi) == IF StrIn(pmi, {"Yes"}) THEN F(20) ELSE F(0)

MedicationNudge(med) == IF StrIn(med, {"Yes"}) THEN F(10) ELSE F(0)

ClampNudges_none(n) == n
ClampNudges(n) == PyMax(F(0 - 100), PyMin(F(100), n))
ClampScore_nofloor(x) == PyMin(F(1000), x)
ClampScore(x) == PyMax(F(0), PyMin(F(1000), x))

StripFields == {"exercise_freq", "diet_quality", "work_life_balance",
                "social_interaction"}

\* (form_data.get(k) or ""), before .strip()
OrEmpty(fd, k) == PyOr(Get(fd, k, PyNone), MkStr(""))

\* compute_risk_score(form_data): whether it raised and, if it returned,
\* the weighted base, the unclamped nudge sum and the returned score
compute_risk_score(fd, u) ==
    LET s == _num(Get(fd, "stress_level", MkInt(0)))
        a == _num(Get(fd, "anxiety_level", MkInt(0)))
        d == _num(Get(fd, "depression_level", MkInt(0)))
        score0 == FAdd(FAdd(FMul(s, F(45)), FMul(a, F(35))), FMul(d, F(20)))
        sleep == _num(Get(fd, "sleep_hours", MkInt(0)))
        n1 == SleepNudge(sleep)
        n2 == FAdd(n1, ExerciseNudge(Strip(OrEmpty(fd, "exercise_freq"))))
        n3 == FAdd(n2, DietNudge(Strip(OrEmpty(fd, "diet_quality"))))
        n4 == FAdd(n3, WlbNudge(Strip(OrEmpty(fd, "work_life_balance"))))
        n5 == FAdd(n4, SocialNudge(Strip(OrEmpty(fd, "social_interaction"))))
        n6 == FAdd(n5, PastNudge(OrEmpty(fd, "past_mental_illness")))
        n7 == FAdd(n6, MedicationNudge(OrEmpty(fd, "current_medication")))
        score1 == FAdd(score0, ClampNudges(n7))
    IN  IF \E k \in StripFields : ~HasStrip(OrEmpty(fd, k))
        THEN \* AttributeError: the object has no attribute 'strip'
             [raised |-> TRUE, base |-> score0, nudges |-> F(0),
              score |-> F(0)]
        ELSE [raised |-> FALSE, base |-> score0, nudges |-> n7,
              score |-> PyRound1(ClampScore(score1), u)]

_risk_label_strict(v) ==
    IF FLt(F(700), v) THEN "High"
    ELSE IF FLt(F(400), v) THEN "Moderate"
    ELSE "Low"
_risk_label_flipped(v) ==
    IF FLe(v, F(700)) THEN "High"
    ELSE IF FGe(v, F(400)) THEN "Moderate"
    ELSE "Low"
\* user_dashboard._risk_label
_risk_label(v) ==
    IF FGe(v, F(700)) THEN "High"
    ELSE IF FGe(v, F(400)) THEN "Moderate"
    ELSE "Low"

(* ------------------------- the admin's risk --------------------------- *)
(* In the aggregation a float record [nan, c] counts thousandths (0.045 is *)
(* 45, 10.0 is 10000): the levels of a stored row may carry one decimal    *)
(* (the admin's row editor steps by 0.1), so a weighted sum carries three. *)
(* A cell of the CSV file is [ok, t]: ok says the text reads as a number,  *)
(* t is that number in tenths; an empty cell or other text has ok FALSE.   *)
Milli(m) == [nan |-> FALSE, c |-> m]
NumCell(t) == [ok |-> TRUE, t |-> t]
BadCell == [ok |-> FALSE, t |-> 0]

\* pd.to_numeric(errors="coerce") of one cell, in tenths
ToNumeric(cell) == IF cell.ok THEN [nan |-> FALSE, c |-> cell.t] ELSE NaN

\* Series * weight, the weight in hundredths and the series in tenths
Weighted(x, w) == IF x.nan THEN NaN ELSE Milli(x.c * w)

\* Series.clip(0, 10): NaN stays NaN
Clip10(x) ==
    IF x.nan THEN NaN
    ELSE IF x.c < 0 THEN Milli(0)
    ELSE IF x.c > 10000 THEN Milli(10000)
    ELSE x

\* _compute_risk, for one row
_compute_risk(row) ==
    LET s == ToNumeric(row.stress_level)
        a == ToNumeric(row.anxiety_level)
        d == ToNumeric(row.depression_level)
    IN  Clip10(FAdd(FAdd(Weighted(s, 45), Weighted(a, 35)), Weighted(d, 20)))

\* _risk_bucket, for one value, followed by .astype(str): pd.cut with bins
\* (-0.001, 4], (4, 7], (7, 10]; a value in no bin, NaN included, is "nan"
_risk_bucket(v) ==
    IF v.nan THEN "nan"
    ELSE IF 0 - 1 < v.c /\ v.c <= 4000 THEN "Low"
    ELSE IF 4000 < v.c /\ v.c <= 7000 THEN "Moderate"
    ELSE IF 7000 < v.c /\ v.c <= 10000 THEN "High"
    ELSE "nan"

\* the cell DataFrame.to_csv writes for a value and pd.read_csv reads back
CellOf(v) ==
    IF v.t = "int" THEN NumCell(10 * v.n)
    ELSE IF v.t = "str" /\ v.s \in DOMAIN NumText THEN NumCell(10 * NumText[v.s])
    ELSE BadCell

\* a score of the scorer (hundredths) in thousandths
MilliOf(f) == IF f.nan THEN NaN ELSE Milli(10 * f.c)

(* ----------------------- the admin aggregation ------------------------ *)
(* The store as _safe_load_inputs returns it: has_ts says whether the file *)
(* has a timestamp column, rows is the sequence of its rows. A timestamp   *)
(* cell [ok, t] that parses is the day number t (pd.to_datetime gives NaT  *)
(* for the others); the rows and the clock carry the same time of day.     *)
RECURSIVE SumRisk(_)
SumRisk(rs) ==
    IF rs = <<>> THEN 0
    ELSE LET r == _compute_risk(Head(rs))
         IN  (IF r.nan THEN 0 ELSE r.c) + SumRisk(Tail(rs))

\* Series.dropna() of the risks of the rows
Valid(rs) == SelectSeq(rs, LAMBDA r : ~_compute_risk(r).nan)

\* round(x, 2) of the double total/n (thousandths): u is the side on which
\* the double nearest to an exact tie lies
Round2(total, n, u) ==
    LET q == total \div (10 * n)
        r == total % (10 * n)
    IN  IF 2 * r < 10 * n THEN Milli(10 * q)
        ELSE IF 2 * r > 10 * n THEN Milli(10 * (q + 1))
        ELSE IF u = "below" THEN Milli(10 * q)
        ELSE Milli(10 * (q + 1))

\* Series.mean().round(2): NaN is skipped, the mean of no value is NaN
MeanRisk_total(rs, u) ==
    IF Valid(rs) = <<>> THEN NaN
    ELSE Round2(SumRisk(Valid(rs)), 1, u)
MeanRisk(rs, u) ==
    IF Valid(rs) = <<>> THEN NaN
    ELSE Round2(SumRisk(Valid(rs)), Len(Valid(rs)), u)

\* df.dropna(subset=["timestamp"])
DropNaT(rs) == SelectSeq(rs, LAMBDA r : r.ts.ok)

\* _date_slice(inputs_df, "timestamp")
_date_slice_nat(df, date_from, date_to) ==
    IF df.rows = <<>> \/ ~df.has_ts THEN df
    ELSE [df EXCEPT !.rows =
            SelectSeq(df.rows,
                      LAMBDA r : \/ ~r.ts.ok
                                 \/ date_from <= r.ts.t /\ r.ts.t <= date_to)]
_date_slice_open(df, date_from, date_to) ==
    IF df.rows = <<>> \/ ~df.has_ts THEN df
    ELSE [df EXCEPT !.rows =
            SelectSeq(DropNaT(df.rows),
                      LAMBDA r : date_from < r.ts.t /\ r.ts.t <= date_to)]
_date_slice(df, date_from, date_to) ==
    IF df.rows = <<>> \/ ~df.has_ts THEN df
    ELSE [df EXCEPT !.rows =
            SelectSeq(DropNaT(df.rows),
                      LAMBDA r : date_from <= r.ts.t /\ r.ts.t <= date_to)]

\* the rows of one calendar date
OnDate(rs, d) == SelectSeq(rs, LAMBDA r : r.ts.t = d)
Dates(rs) == {rs[i].ts.t : i \in 1..Len(rs)}

\* avg_risk of the "Avg Risk" card: None unless some row has a risk
AvgRisk_zero(win, u) ==
    IF win.rows # <<>> /\ Valid(win.rows) # <<>>
    THEN [some |-> TRUE, v |-> MeanRisk(win.rows, u)]
    ELSE [some |-> TRUE, v |-> Milli(0)]
AvgRisk(win, u) ==
    IF win.rows # <<>> /\ Valid(win.rows) # <<>>
    THEN [some |-> TRUE, v |-> MeanRisk(win.rows, u)]
    ELSE [some |-> FALSE, v |-> NaN]

\* the guard of both sparklines and of the Analytics tab
HasWindow(win) == win.rows # <<>> /\ win.has_ts

\* "Submissions per day": value_counts of the dates
PerDayCount(win) ==
    IF HasWindow(win)
    THEN LET rs == DropNaT(win.rows)
         IN  {[date |-> d, n |-> Len(OnDate(rs, d))] : d \in Dates(rs)}
    ELSE {}

\* "Avg risk per day": groupby("date")["risk"].mean().round(2)
PerDayMean(win, u) ==
    IF HasWindow(win)
    THEN LET rs == DropNaT(win.rows)
         IN  {[date |-> d, mean |-> MeanRisk(OnDate(rs, d), u)] : d \in Dates(rs)}
    ELSE {}

\* (count / total * 100).round(1), in tenths of a percent
Pct(count, total) == (2000 * count + total) \div (2 * total)

\* "Risk mix over time": groupby(["date", "bucket"]).size() and its share
BucketNames == {"Low", "Moderate", "High", "nan"}
InBucket(rs, b) == SelectSeq(rs, LAMBDA r : _risk_bucket(_compute_risk(r)) = b)
RiskMix(win) ==
    IF HasWindow(win)
    THEN LET rs == DropNaT(win.rows)
         IN  {[date |-> d, bucket |-> b,
               count |-> Len(InBucket(OnDate(rs, d), b)),
               pct |-> Pct(Len(InBucket(OnDate(rs, d), b)), Len(OnDate(rs, d)))] :
                 <<d, b>> \in {x \in Dates(rs) \X BucketNames :
                                 InBucket(OnDate(rs, x[1]), x[2]) # <<>>}}
    ELSE {}

\* the orders sort_values(ascending=False) may leave the items of S in:
\* non-increasing by key, NaN last, equal keys in any order
Orders(S, key) ==
    {q \in [1..Cardinality(S) -> S] :
        /\ \A i, j \in 1..Cardinality(S) : i # j => q[i] # q[j]
        /\ \A i, j \in 1..Cardinality(S) :
              i < j => \/ key[q[j]].nan
                       \/ (~key[q[i]].nan /\ key[q[i]].c >= key[q[j]].c)}

\* DataFrame.head(n)
FirstN(q, n) == SubSeq(q, 1, IF Len(q) < n THEN Len(q) ELSE n)

\* "High-risk alerts (last 7 days)": the positions in the store of the rows
\* shown, in the orders the sort may give
Alerts(win, df, clock, risk_min) ==
    IF HasWindow(win) /\ df.rows # <<>> /\ df.has_ts
    THEN LET hit == {i \in 1..Len(df.rows) :
                        /\ df.rows[i].ts.ok
                        /\ df.rows[i].ts.t >= clock - 7
                        /\ FGe(_compute_risk(df.rows[i]), risk_min)}
         IN  {FirstN(q, 50) :
                q \in Orders(hit, [i \in hit |-> _compute_risk(df.rows[i])])}
    ELSE {<<>>}

\* last30 of "Top at-risk users"
Last30(df, clock) ==
    SelectSeq(DropNaT(df.rows), LAMBDA r : r.ts.t >= clock - 30)
ByEmail(rs, e) == SelectSeq(rs, LAMBDA r : r.email = e)
Emails(rs) == {rs[i].email : i \in 1..Len(rs)}

\* "Top at-risk users (avg risk in last 30 days)", in the orders the sort
\* may give
Ranking(win, df, clock, u) ==
    IF HasWindow(win) /\ df.rows # <<>> /\ df.has_ts
    THEN LET rs == Last30(df, clock)
             avg(e) == MeanRisk(ByEmail(rs, e), u)
         IN  {FirstN([i \in 1..Len(q) |-> [User |-> q[i], AvgRisk |-> avg(q[i])]], 25) :
                q \in Orders(Emails(rs), [e \in Emails(rs) |-> avg(e)])}
    ELSE {<<>>}

\* what one run of admin_dashboard shows of the submissions
Views(df, sb, clock) ==
    LET win == _date_slice(df, sb.date_from, sb.date_to)
    IN  UNION {{[shown |-> TRUE,
                  count |-> Len(win.rows),
                  avg_risk |-> AvgRisk(win, u),
                  per_day_count |-> PerDayCount(win),
                  per_day_mean |-> PerDayMean(win, u),
                  mix |-> RiskMix(win),
                  analytics |-> HasWindow(win),
                  alerts |-> al,
                  ranking |-> rk] :
                    al \in Alerts(win, df, clock, sb.risk_min),
                    rk \in Ranking(win, df, clock, u)} :
                 u \in {"below", "above"}}

(* ------------------------- the inputs of the model -------------------- *)
LevelInts == (0 - LevelMargin)..(10 + LevelMargin)
LevelVals == {MkInt(i) : i \in LevelInts}
                 \cup {Missing, PyNone, MkStr("abc"), MkStr("8"), MkNaN}
SleepVals == {MkInt(i) : i \in {5, 6, 7, 9, 10}} \cup {Missing, MkStr("abc")}
ExerciseVals == {MkStr("None"), Padded("None"), MkStr("1-2 days/week"),
                 MkStr("Daily"), MkInt(3)}
DietVals == {MkStr("Poor"), MkStr("Average"), MkStr("Good"),
             Padded("Excellent"), MkNaN}
WlbVals == {MkStr("Poor"), MkStr("Fair"), MkStr("Excellent"), PyNone,
            MkInt(0)}
SocialVals == {MkStr("Rarely"), MkStr("Sometimes"), MkStr("Often"),
               Missing, MkStr("")}
YesNoVals == {MkStr("Yes"), MkStr("No"), Padded("Yes")}

Submission(st, an, de, sl, ex, di, wl, so, pm, cm) ==
    [stress_level |-> st, anxiety_level |-> an, depression_level |-> de,
     sleep_hours |-> sl, exercise_freq |-> ex, diet_quality |-> di,
     work_life_balance |-> wl, social_interaction |-> so,
     past_mental_illness |-> pm, current_medication |-> cm]

\* four lifestyle profiles: every positive nudge, the worked example of
\* the specification, the form's first options, every negative nudge
LifestyleProfiles ==
    { <<MkInt(5), MkStr("None"), MkStr("Poor"), MkStr("Poor"),
        MkStr("Rarely"), MkStr("Yes"), MkStr("Yes")>>,
      <<MkInt(5), MkStr("None"), MkStr("Average"), MkStr("Fair"),
        MkStr("Sometimes"), MkStr("No"), MkStr("No")>>,
      <<MkInt(6), MkStr("1-2 days/week"), MkStr("Average"), MkStr("Fair"),
        MkStr("Sometimes"), MkStr("No"), MkStr("No")>>,
      <<MkInt(8), MkStr("Daily"), MkStr("Good"), MkStr("Excellent"),
        MkStr("Often"), MkStr("No"), MkStr("No")>> }

\* two level profiles: all zero, and the form's slider defaults (whose
\* weighted base 4.25 is a rounding tie)
LevelProfiles ==
    { <<0, 0, 0>>, <<5, 4, 3>> }

\* arbitrary levels with a lifestyle profile
NumericInputs ==
    { Submission(st, an, de, p[1], p[2], p[3], p[4], p[5], p[6], p[7]) :
        st \in LevelVals, an \in LevelVals, de \in LevelVals,
        p \in LifestyleProfiles }

\* arbitrary lifestyle values with a level profile
LifestyleInputs ==
    { Submission(MkInt(l[1]), MkInt(l[2]), MkInt(l[3]), f.sl, f.ex, f.di,
                 f.wl, f.so, f.pm, f.cm) :
        l \in LevelProfiles,
        f \in [sl : SleepVals, ex : ExerciseVals, di : DietVals,
               wl : WlbVals, so : SocialVals, pm : YesNoVals,
               cm : YesNoVals] }

(* ------------------------------ scorer -------------------------------- *)
\* the exact decimal score lies half way between two tenths, so that the
\* rounding error of the doubles decides the result
Tie(fd) ==
    compute_risk_score(fd, "below") # compute_risk_score(fd, "above")

NoLabels == <<"", "">>

\* the parts of the state a specification does not use
IdleRow == row_risk = NaN /\ bucket = ""
IdleUser ==
    /\ session_state = [mp_form |-> 0, mp_consent |-> "unset"]
    /\ user_inputs = <<>>
    /\ runs = 0
IdleAuth ==
    /\ users = [exists |-> FALSE, rows |-> <<>>]
    /\ auth_session = [logged_in |-> FALSE]
    /\ auth_ret = [op |-> "none"]
    /\ reg = <<>>
IdleStore ==
    /\ file = <<>>
    /\ cache = [filled |-> FALSE, df |-> <<>>]
    /\ backups = <<>>
    /\ audit = <<>>
    /\ admin_op = [op |-> "none"]
    /\ usess = <<>>
    /\ saved = {}
    /\ deleted = {}
IdleAgg ==
    /\ csv = [has_ts |-> TRUE, rows |-> <<>>]
    /\ sidebar = [date_from |-> 0, date_to |-> 0, risk_min |-> Milli(7000)]
    /\ now = 0
    /\ view = [shown |-> FALSE]

InitScore ==
    /\ form_data \in NumericInputs \cup LifestyleInputs
    /\ ulp \in IF Tie(form_data) THEN {"below", "above"} ELSE {"below"}
    /\ pc = "call"
    /\ raised = FALSE
    /\ base = F(0)
    /\ nudges = F(0)
    /\ score = F(0)
    /\ risk_label = ""
    /\ xy = <<F(0), F(0)>>
    /\ labels = NoLabels
    /\ IdleRow
    /\ IdleAgg
    /\ IdleUser
    /\ IdleAuth
    /\ IdleStore

\* risk_score = compute_risk_score(form_data)
Score ==
    /\ pc = "call"
    /\ LET r == compute_risk_score(form_data, ulp)
       IN  /\ raised' = r.raised
           /\ base' = r.base
           /\ nudges' = r.nudges
           /\ score' = r.score
           /\ pc' = IF r.raised THEN "raised" ELSE "scored"
    /\ UNCHANGED <<form_data, ulp, risk_label, labelVars, rowVars, aggVars, userVars, authVars, storeVars>>

\* risk_label = _risk_label(risk_score)
Label ==
    /\ pc = "scored"
    /\ risk_label' = _risk_label(score)
    /\ pc' = "done"
    /\ UNCHANGED <<form_data, ulp, raised, base, nudges, score, labelVars,
                   rowVars, aggVars, userVars, authVars, storeVars>>

NextScore == Score \/ Label

SpecScore == InitScore /\ [][NextScore]_vars

(* ------------------------------- label -------------------------------- *)
ScoreGrid == {F(10 * i) : i \in 0..GridTenths}

InitLabel ==
    /\ xy \in ScoreGrid \X ScoreGrid
    /\ labels = NoLabels
    /\ form_data = Submission(Missing, Missing, Missing, Missing, Missing,
                              Missing, Missing, Missing, Missing, Missing)
    /\ ulp = "below"
    /\ pc = "label"
    /\ raised = FALSE
    /\ base = F(0)
    /\ nudges = F(0)
    /\ score = F(0)
    /\ risk_label = ""
    /\ IdleRow
    /\ IdleAgg
    /\ IdleUser
    /\ IdleAuth
    /\ IdleStore

\* _risk_label applied to the first score
LabelX ==
    /\ pc = "label"
    /\ labels[1] = ""
    /\ labels' = [labels EXCEPT ![1] = _risk_label(xy[1])]
    /\ UNCHANGED <<xy, scoreVars, rowVars, aggVars, userVars, authVars, storeVars>>

\* _risk_label applied to the second score
LabelY ==
    /\ pc = "label"
    /\ labels[2] = ""
    /\ labels' = [labels EXCEPT ![2] = _risk_label(xy[2])]
    /\ UNCHANGED <<xy, scoreVars, rowVars, aggVars, userVars, authVars, storeVars>>

\* _risk_bucket applied to the first score
BucketX ==
    /\ pc = "label"
    /\ bucket = ""
    /\ bucket' = _risk_bucket(MilliOf(xy[1]))
    /\ UNCHANGED <<xy, labels, scoreVars, row_risk, aggVars, userVars, authVars, storeVars>>

NextLabel == LabelX \/ LabelY \/ BucketX

SpecLabel == InitLabel /\ [][NextLabel]_vars

(* ------------------------ scorer and aggregator ----------------------- *)
\* the row save_user_inputs appends for a submission, as the admin page
\* reads it back from the CSV file
RowOf(fd, day, who) ==
    [ts |-> NumCell(day), email |-> who,
     stress_level |-> CellOf(fd.stress_level),
     anxiety_level |-> CellOf(fd.anxiety_level),
     depression_level |-> CellOf(fd.depression_level)]

InitRow ==
    /\ form_data \in NumericInputs
    /\ ulp \in IF Tie(form_data) THEN {"below", "above"} ELSE {"below"}
    /\ pc = "call"
    /\ raised = FALSE
    /\ base = F(0)
    /\ nudges = F(0)
    /\ score = F(0)
    /\ risk_label = ""
    /\ xy = <<F(0), F(0)>>
    /\ labels = NoLabels
    /\ IdleRow
    /\ IdleAgg
    /\ IdleUser
    /\ IdleAuth
    /\ IdleStore

\* the admin page computes the risk of the submission's row
RowRisk ==
    /\ pc = "scored"
    /\ row_risk' = _compute_risk(RowOf(form_data, 0, "a@x"))
    /\ pc' = "compared"
    /\ UNCHANGED <<form_data, ulp, raised, base, nudges, score, risk_label,
                   labelVars, bucket, aggVars, userVars, authVars, storeVars>>

NextRow == Score \/ RowRisk

SpecRow == InitRow /\ [][NextRow]_vars

(* ----------------------------- aggregator ----------------------------- *)
\* the rows of the store: the timestamp is empty or unparseable, older than
\* thirty days, between thirty and seven days old, or of today
TsCells == {BadCell, NumCell(0), NumCell(20), NumCell(40)}
\* risks 0.045, 6.7, 10.9 (clipped to 10.0) and an unparseable stress level
LevelCells ==
    { <<NumCell(1), NumCell(0), NumCell(0)>>,
      <<NumCell(80), NumCell(60), NumCell(50)>>,
      <<NumCell(120), NumCell(100), NumCell(100)>>,
      <<BadCell, NumCell(60), NumCell(50)>> }
RowKinds ==
    { [ts |-> ts, email |-> e, stress_level |-> l[1],
       anxiety_level |-> l[2], depression_level |-> l[3]] :
        ts \in TsCells, e \in {"a@x", "b@x"}, l \in LevelCells }

RECURSIVE SeqsUpTo(_, _)
SeqsUpTo(S, n) ==
    IF n = 0 THEN {<<>>}
    ELSE LET shorter == SeqsUpTo(S, n - 1)
         IN  shorter \cup {Append(q, x) : q \in shorter, x \in S}

\* a file without a timestamp column has no timestamp cell in any row
Stores ==
    {[has_ts |-> TRUE, rows |-> q] : q \in SeqsUpTo(RowKinds, MaxRows)}
    \cup {[has_ts |-> FALSE, rows |-> q] :
            q \in SeqsUpTo({r \in RowKinds : r.ts = BadCell}, MaxRows)}

\* the date inputs of the sidebar: the default (the last thirty days), a
\* window that ends on days with rows, and one that lies between them
Windows == {<<10, 40>>, <<20, 40>>, <<21, 39>>}

InitAgg ==
    /\ csv \in Stores
    /\ now = 40
    /\ sidebar = [date_from |-> 10, date_to |-> 40, risk_min |-> Milli(7000)]
    /\ view = [shown |-> FALSE]
    /\ form_data = Submission(Missing, Missing, Missing, Missing, Missing,
                              Missing, Missing, Missing, Missing, Missing)
    /\ ulp = "below"
    /\ pc = "admin"
    /\ raised = FALSE
    /\ base = F(0)
    /\ nudges = F(0)
    /\ score = F(0)
    /\ risk_label = ""
    /\ xy = <<F(0), F(0)>>
    /\ labels = NoLabels
    /\ IdleRow
    /\ IdleUser
    /\ IdleAuth
    /\ IdleStore

\* one run of admin_dashboard with the date inputs set to a window
AdminRun ==
    /\ pc = "admin"
    /\ \E w \in Windows :
          /\ sidebar' = [sidebar EXCEPT !.date_from = w[1], !.date_to = w[2]]
          /\ view' \in Views(csv, sidebar', now)
    /\ pc' = "shown"
    /\ UNCHANGED <<form_data, ulp, raised, base, nudges, score, risk_label,
                   labelVars, rowVars, csv, now, userVars, authVars, storeVars>>

NextAgg == AdminRun

SpecAgg == InitAgg /\ [][NextAgg]_vars

(* ----------------------------- user page ------------------------------ *)
(* A session of a logged-in user. An assessment is the number of the form  *)
(* submission that produced it; mp_form 0 is no persisted assessment; a    *)
(* row of user_inputs is the assessment it was saved for.                  *)
InitUser ==
    /\ session_state = [mp_form |-> 0, mp_consent |-> "unset"]
    /\ user_inputs = <<>>
    /\ runs = 0
    /\ form_data = Submission(Missing, Missing, Missing, Missing, Missing,
                              Missing, Missing, Missing, Missing, Missing)
    /\ ulp = "below"
    /\ pc = "user"
    /\ raised = FALSE
    /\ base = F(0)
    /\ nudges = F(0)
    /\ score = F(0)
    /\ risk_label = ""
    /\ xy = <<F(0), F(0)>>
    /\ labels = NoLabels
    /\ IdleRow
    /\ IdleAgg
    /\ IdleAuth
    /\ IdleStore

\* save_user_inputs(form_data, email, name): one row appended
save_user_inputs(rows, assessment) == Append(rows, assessment)

\* the consent block: the row is saved when the checkbox is checked
ConsentAndSave_always(consent, rows, assessment) ==
    save_user_inputs(rows, assessment)
ConsentAndSave(consent, rows, assessment) ==
    IF consent = "on" THEN save_user_inputs(rows, assessment) ELSE rows

\* two submissions the form can return (its emoji options written as in
\* DietOptions and WlbOptions): scores 6.7 and 2.0
UserForms ==
    { Submission(MkInt(10), MkInt(4), MkInt(3), MkInt(7), MkStr("None"),
                 MkStr("Poor[red circle]"), MkStr("Poor [red circle]"),
                 MkStr("Rarely"), MkStr("No"), MkStr("No")),
      Submission(MkInt(0), MkInt(4), MkInt(3), MkInt(12), MkStr("Daily"),
                 MkStr("Good[green circle]"), MkStr("Fair [orange circle]"),
                 MkStr("Sometimes"), MkStr("Yes"), MkStr("No")) }

\* one run of user_dashboard; trigger is the widget that caused it: the
\* form's submit button (fd is what the form returns), the consent
\* checkbox, or any other widget (the section radio, a download button,
\* the feedback form). The scorer does not raise on what the form returns,
\* so the fallback score of the except branch is never taken.
UserRun(trigger, fd) ==
    /\ pc = "user"
    /\ runs < MaxRuns
    /\ trigger = "consent" => session_state.mp_consent # "unset"
    /\ LET submitted == IF trigger = "submit"
                        THEN session_state.mp_form + 1 ELSE 0
           mp_form == IF submitted # 0 THEN submitted
                      ELSE session_state.mp_form
           consent == IF session_state.mp_consent = "unset" THEN "on"
                      ELSE IF trigger # "consent" THEN session_state.mp_consent
                      ELSE IF session_state.mp_consent = "on" THEN "off"
                      ELSE "on"
           risk == compute_risk_score(fd, ulp)
       IN  IF mp_form = 0
           THEN UNCHANGED <<session_state, user_inputs, form_data, raised,
                            base, nudges, score, risk_label>>
           ELSE /\ session_state' = [mp_form |-> mp_form, mp_consent |-> consent]
                /\ form_data' = fd
                /\ user_inputs' = ConsentAndSave(consent, user_inputs, mp_form)
                /\ raised' = risk.raised
                /\ base' = risk.base
                /\ nudges' = risk.nudges
                /\ score' = risk.score
                /\ risk_label' = _risk_label(risk.score)
    /\ runs' = runs + 1
    /\ UNCHANGED <<ulp, pc, labelVars, rowVars, aggVars, authVars, storeVars>>

NextUser ==
    \/ \E fd \in UserForms : UserRun("submit", fd)
    \/ UserRun("consent", form_data)
    \/ UserRun("other", form_data)

SpecUser == InitUser /\ [][NextUser]_vars

(* ------------------------- the assessment form ----------------------- *)
(* The options of the form's select widgets. An emoji of an option is      *)
(* written as its name in brackets: "Poor[red circle]" is the text Poor    *)
(* directly followed by the red-circle emoji, "Poor [red circle]" has a    *)
(* space between them.                                                     *)
ExerciseOptions == {"None", "1-2 days/week", "3-5 days/week", "Daily"}
DietOptions == {"Poor[red circle]", "Average[orange circle]",
                "Good[green circle]", "Excellent[blue circle]"}
SocialOptions == {"Rarely", "Sometimes", "Often", "Daily"}
WlbOptions == {"Poor [red circle]", "Fair [orange circle]",
               "Good [green circle]", "Excellent [blue circle]"}
YesNoOptions == {"No", "Yes"}

\* what mental_health_form returns when the form is submitted: whole
\* numbers from the sliders, one option from each select widget
FormSubmissions ==
    { Submission(MkInt(st), MkInt(4), MkInt(3), MkInt(sl), MkStr(ex),
                 MkStr(di), MkStr(wl), MkStr(so), MkStr(pm), MkStr(cm)) :
        st \in {0, 5, 10}, sl \in {5, 7, 12}, ex \in ExerciseOptions,
        di \in DietOptions, wl \in WlbOptions, so \in SocialOptions,
        pm \in YesNoOptions, cm \in YesNoOptions }

InitForm ==
    /\ form_data \in FormSubmissions
    /\ ulp \in IF Tie(form_data) THEN {"below", "above"} ELSE {"below"}
    /\ pc = "call"
    /\ raised = FALSE
    /\ base = F(0)
    /\ nudges = F(0)
    /\ score = F(0)
    /\ risk_label = ""
    /\ xy = <<F(0), F(0)>>
    /\ labels = NoLabels
    /\ IdleRow
    /\ IdleAgg
    /\ IdleUser
    /\ IdleAuth
    /\ IdleStore

SpecForm == InitForm /\ [][NextScore]_vars

(* ------------------------------- auth --------------------------------- *)
(* The users file is [exists, rows]; a row is what csv.DictReader gives    *)
(* for a line: email, password, role, name, each the text that was written.*)
\* email.strip().lower() of the emails of the model
Norm == ("a@x" :> "a@x") @@ (" A@X " :> "a@x") @@ ("b@x" :> "b@x")
AuthEmails == DOMAIN Norm
Passwords == {"p", "P"}
\* the role chosen on the Register form and the full name typed with it
Accounts == {<<"user", "Ann">>, <<"admin", "Bob">>}

\* init_users_file
init_users_file(f) == IF f.exists THEN f ELSE [exists |-> TRUE, rows |-> <<>>]

\* user_exists
user_exists_exact(f, email) ==
    /\ f.exists
    /\ \E i \in 1..Len(f.rows) : f.rows[i].email = email
user_exists(f, email) ==
    /\ f.exists
    /\ \E i \in 1..Len(f.rows) : Norm[f.rows[i].email] = Norm[email]

\* register_user: what it returns and the users file it leaves
register_user(f, email, password, name, role) ==
    IF user_exists(init_users_file(f), email)
    THEN [success |-> FALSE, msg |-> "User already exists!",
          users |-> init_users_file(f)]
    ELSE [success |-> TRUE, msg |-> "Registration successful!",
          users |-> [exists |-> TRUE,
                     rows |-> Append(init_users_file(f).rows,
                                     [email |-> Norm[email],
                                      password |-> password,
                                      role |-> role, name |-> name])]]

\* authenticate_user: None, or the role and name of the first match
None == [some |-> FALSE]
authenticate_user_anypw(f, email, password) ==
    IF ~f.exists THEN None
    ELSE LET hits == {i \in 1..Len(f.rows) :
                        Norm[f.rows[i].email] = Norm[email]}
         IN  IF hits = {} THEN None
             ELSE LET i == CHOOSE k \in hits : \A l \in hits : k <= l
                  IN  [some |-> TRUE, role |-> f.rows[i].role,
                       name |-> f.rows[i].name]
authenticate_user(f, email, password) ==
    IF ~f.exists THEN None
    ELSE LET hits == {i \in 1..Len(f.rows) :
                        /\ Norm[f.rows[i].email] = Norm[email]
                        /\ f.rows[i].password = password}
         IN  IF hits = {} THEN None
             ELSE LET i == CHOOSE k \in hits : \A l \in hits : k <= l
                  IN  [some |-> TRUE, role |-> f.rows[i].role,
                       name |-> f.rows[i].name]

\* a users file as registrations, or an administrator's upload of a users
\* CSV, may have left it
UserRows ==
    {[email |-> e, password |-> p, role |-> a[1], name |-> a[2]] :
        e \in AuthEmails, p \in Passwords, a \in Accounts}

RECURSIVE UserSeqs(_)
UserSeqs(n) ==
    IF n = 0 THEN {<<>>}
    ELSE UserSeqs(n - 1)
         \cup {Append(q, x) : q \in UserSeqs(n - 1), x \in UserRows}

UsersFiles ==
    {[exists |-> FALSE, rows |-> <<>>]}
    \cup {[exists |-> TRUE, rows |-> q] : q \in UserSeqs(MaxUsers)}

IdleScore ==
    /\ form_data = Submission(Missing, Missing, Missing, Missing, Missing,
                              Missing, Missing, Missing, Missing, Missing)
    /\ ulp = "below"
    /\ raised = FALSE
    /\ base = F(0)
    /\ nudges = F(0)
    /\ score = F(0)
    /\ risk_label = ""
    /\ xy = <<F(0), F(0)>>
    /\ labels = NoLabels

\* a fresh installation: no users file yet
InitAuth ==
    /\ users = [exists |-> FALSE, rows |-> <<>>]
    /\ auth_session = [logged_in |-> FALSE]
    /\ auth_ret = [op |-> "none"]
    /\ reg = <<>>
    /\ pc = "login_page"
    /\ IdleScore
    /\ IdleRow
    /\ IdleAgg
    /\ IdleUser
    /\ IdleStore

\* an installation with some users file
InitLogin ==
    /\ users \in UsersFiles
    /\ auth_session = [logged_in |-> FALSE]
    /\ auth_ret = [op |-> "none"]
    /\ reg = <<>>
    /\ pc = "login_page"
    /\ IdleScore
    /\ IdleRow
    /\ IdleAgg
    /\ IdleUser
    /\ IdleStore

\* login_page, the Register button pressed
Register(email, password, account) ==
    /\ pc = "login_page"
    /\ Len(users.rows) < MaxUsers
    /\ LET r == register_user(users, email, password, account[2], account[1])
       IN  /\ users' = r.users
           /\ auth_ret' = [op |-> "register", email |-> email,
                           password |-> password, account |-> account,
                           success |-> r.success, msg |-> r.msg,
                           before |-> users]
    /\ UNCHANGED <<auth_session, reg, scoreVars, labelVars, rowVars, aggVars,
                   userVars, storeVars>>

\* login_page, the Login button pressed
Login(email, password) ==
    /\ pc = "login_page"
    /\ LET result == authenticate_user(users, email, password)
       IN  /\ auth_session' =
                 IF result.some
                 THEN [logged_in |-> TRUE, role |-> result.role,
                       name |-> result.name, email |-> email]
                 ELSE auth_session
           /\ auth_ret' = [op |-> "login", email |-> email,
                           password |-> password, result |-> result,
                           before |-> auth_session]
    /\ UNCHANGED <<users, reg, scoreVars, labelVars, rowVars, aggVars,
                   userVars, storeVars>>

NextAuth ==
    \/ \E e \in AuthEmails, p \in Passwords, a \in Accounts : Register(e, p, a)
    \/ \E e \in AuthEmails, p \in Passwords : Login(e, p)

SpecAuth == InitAuth /\ [][NextAuth]_vars

SpecLogin == InitLogin /\ [][NextAuth]_vars

(* ----------------------- concurrent registration --------------------- *)
(* Two browser sessions, each running login_page in its own script thread  *)
(* and pressing Register once. A step is one file operation of             *)
(* register_user: the os.path.exists test of init_users_file, its creation *)
(* of the file (mode "w"), the read of user_exists, the append (mode "a"). *)
Sessions == {1, 2}

InitRace ==
    /\ users \in {[exists |-> FALSE, rows |-> <<>>],
                  [exists |-> TRUE, rows |-> <<>>]}
    /\ reg = [s \in Sessions |-> [pc |-> "idle"]]
    /\ auth_session = [logged_in |-> FALSE]
    /\ auth_ret = [op |-> "none"]
    /\ pc = "login_page"
    /\ IdleScore
    /\ IdleRow
    /\ IdleAgg
    /\ IdleUser
    /\ IdleStore

\* register_user is called; init_users_file tests os.path.exists
RegInitTest(s, email) ==
    /\ reg[s].pc = "idle"
    /\ reg' = [reg EXCEPT ![s] =
                 [pc |-> IF users.exists THEN "inited" ELSE "create",
                  email |-> email]]
    /\ UNCHANGED users
    /\ UNCHANGED <<auth_session, auth_ret, scoreVars, labelVars, rowVars,
                   aggVars, userVars, storeVars>>

\* init_users_file writes the header to a new, truncated file
RegInitCreate(s) ==
    /\ reg[s].pc = "create"
    /\ users' = [exists |-> TRUE, rows |-> <<>>]
    /\ reg' = [reg EXCEPT ![s].pc = "inited"]
    /\ UNCHANGED <<auth_session, auth_ret, scoreVars, labelVars, rowVars,
                   aggVars, userVars, storeVars>>

\* user_exists reads the file; if the email is there the call returns
RegCheck(s) ==
    /\ reg[s].pc = "inited"
    /\ reg' = [reg EXCEPT ![s] =
                 IF user_exists(users, reg[s].email)
                 THEN [pc |-> "done", email |-> reg[s].email,
                       success |-> FALSE]
                 ELSE [pc |-> "append", email |-> reg[s].email]]
    /\ UNCHANGED users
    /\ UNCHANGED <<auth_session, auth_ret, scoreVars, labelVars, rowVars,
                   aggVars, userVars, storeVars>>

\* the row is appended and the call returns success
RegAppend(s) ==
    /\ reg[s].pc = "append"
    /\ users' = [exists |-> TRUE,
                 rows |-> Append(users.rows,
                                 [email |-> Norm[reg[s].email],
                                  password |-> "p", role |-> "user",
                                  name |-> "Ann"])]
    /\ reg' = [reg EXCEPT ![s] =
                 [pc |-> "done", email |-> reg[s].email, success |-> TRUE]]
    /\ UNCHANGED <<auth_session, auth_ret, scoreVars, labelVars, rowVars,
                   aggVars, userVars, storeVars>>

NextRace ==
    \/ \E s \in Sessions, e \in AuthEmails : RegInitTest(s, e)
    \/ \E s \in Sessions : RegInitCreate(s)
    \/ \E s \in Sessions : RegCheck(s)
    \/ \E s \in Sessions : RegAppend(s)

SpecRace == InitRace /\ [][NextRace]_vars

(* ------------------- the submission store, shared -------------------- *)
(* data/user_inputs.csv is written by user sessions (utils/user_utils) and *)
(* by the admin's User Inputs tab (utils/admin_utils).  A stored row is    *)
(* [id, ts, email, sleep_hours]: id names the submission (it stands for    *)
(* the columns no handler below reads), ts and sleep_hours are cells.  A   *)
(* cell with ok FALSE and t = 1 is text that is not empty and does not     *)
(* parse; BadCell is the empty cell.  Sleep hours are in tenths.           *)
(* The admin's backups are a dict keyed by the second of the clock; here   *)
(* every backup falls in a second of its own, so the dict is the sequence  *)
(* of its values in insertion order.                                       *)
MaxWrites == 2

TextCell == [ok |-> FALSE, t |-> 1]
StoreRow(id, ts, email, sleep_hours) ==
    [id |-> id, ts |-> ts, email |-> email, sleep_hours |-> sleep_hours]

\* rows on disk before the sessions start: one of today, one older than the
\* default window, one whose timestamp is not a date, one without sleep hours
SeedFile ==
    << StoreRow(1, NumCell(40), "a@x", NumCell(70)),
       StoreRow(2, NumCell(0), "a@x", NumCell(90)),
       StoreRow(3, TextCell, "b@x", NumCell(70)),
       StoreRow(4, NumCell(40), "b@x", BadCell) >>
\* the file as init_files creates it, a file with one row, and a file
\* with all four
SeedFiles == {<<>>, SubSeq(SeedFile, 1, 1), SeedFile}

\* the row a user session builds from its form, stamped with the clock
UserRow(u) == StoreRow(10 + u, NumCell(now), "u@x", NumCell(70))

\* files an administrator may upload: a header alone, or exported rows
Uploads ==
    { <<>>,
      <<StoreRow(5, NumCell(40), "c@x", NumCell(60))>> }

Ids(rows) == {rows[i].id : i \in 1..Len(rows)}

\* pd.to_datetime / pd.to_numeric with errors="coerce": text that does not
\* parse becomes NaT / NaN, which to_csv later writes as the empty cell
\* _safe_load_inputs, uncached: read the file and coerce the columns
_safe_load_inputs(f) ==
    LET Coerce(cell) == IF cell.ok THEN cell ELSE BadCell
    IN  [i \in 1..Len(f) |->
            [f[i] EXCEPT !.ts = Coerce(f[i].ts),
                         !.sleep_hours = Coerce(f[i].sleep_hours)]]

\* the frame the tab previews and hands to the editor; Contains is
\* str.contains(email_filter, case=False) on the stored emails, skipped
\* for an empty filter
Filtered(inputs_win, email_filter, min_sleep, max_sleep) ==
    LET Contains(email, q) == q = "" \/ (q = "a" /\ email = "a@x")
    IN
    SelectSeq(inputs_win,
              LAMBDA r : /\ Contains(r.email, email_filter)
                         /\ r.sleep_hours.ok
                         /\ min_sleep <= r.sleep_hours.t
                         /\ r.sleep_hours.t <= max_sleep)

\* what st.data_editor returns: the frame it was given, as the
\* administrator left it
Edited(df, edit) ==
    IF df = <<>> \/ edit = "none" THEN df
    ELSE IF edit = "email" THEN [df EXCEPT ![1].email = "c@x"]
    ELSE Tail(df)

\* the upload branch: a held file is written on every run of the tab
upload_csv(up, inputs_df, f) ==
    IF up.some
    THEN <<[kind |-> "upload", before |-> f, backup |-> inputs_df,
            written |-> up.rows, logged |-> <<>>]>>
    ELSE <<>>

\* "Save edited table": backs up the loaded frame, writes the editor's
save_table(edited, inputs_df, f) ==
    <<[kind |-> "save_table", before |-> f, backup |-> inputs_df,
       written |-> edited, logged |-> <<"save_table">>]>>

\* "Save changes to this submission"
save_row(sel, e_email, inputs_df, f) ==
    <<[kind |-> "edit_row", before |-> f, backup |-> inputs_df,
       written |-> [inputs_df EXCEPT ![sel].email = e_email],
       logged |-> <<"edit_row">>]>>

\* "Delete this submission", next to the "Confirm delete" checkbox
delete_row_unconfirmed(sel, confirm, inputs_df, f) ==
    <<[kind |-> "delete_row", before |-> f, backup |-> inputs_df,
       written |-> SubSeq(inputs_df, 1, sel - 1)
                       \o SubSeq(inputs_df, sel + 1, Len(inputs_df)),
       logged |-> <<"delete_row">>]>>
delete_row(sel, confirm, inputs_df, f) ==
    IF ~confirm THEN <<>>
    ELSE <<[kind |-> "delete_row", before |-> f, backup |-> inputs_df,
            written |-> SubSeq(inputs_df, 1, sel - 1)
                       \o SubSeq(inputs_df, sel + 1, Len(inputs_df)),
            logged |-> <<"delete_row">>]>>

NoUpload == [some |-> FALSE, rows |-> <<>>]
EmptyCache == [filled |-> FALSE, df |-> <<>>]

RECURSIVE Backed(_)
Backed(writes) ==
    IF writes = <<>> THEN <<>>
    ELSE <<Head(writes).backup>> \o Backed(Tail(writes))
RECURSIVE Logged(_)
Logged(writes) ==
    IF writes = <<>> THEN <<>>
    ELSE Head(writes).logged \o Logged(Tail(writes))
RECURSIVE Dropped(_, _)
Dropped(writes, inputs_df) ==
    IF writes = <<>> THEN {}
    ELSE (Ids(inputs_df) \ Ids(Head(writes).written))
         \cup Dropped(Tail(writes), inputs_df)

InitStore ==
    /\ file \in SeedFiles
    /\ cache = EmptyCache
    /\ backups = <<>>
    /\ audit = <<>>
    /\ \E es \in BOOLEAN :
          admin_op = [editor_supported |-> es, up |-> NoUpload,
                      trigger |-> "none", inputs_df |-> <<>>,
                      shown |-> <<>>, sel |-> 0, confirm |-> FALSE,
                      writes |-> <<>>, file_before |-> file,
                      file_after |-> file, backups_before |-> <<>>,
                      audit_before |-> <<>>]
    /\ usess = [u \in Sessions |-> [pc |-> "idle", df |-> <<>>]]
    /\ saved = {}
    /\ deleted = {}
    /\ csv = [has_ts |-> TRUE, rows |-> <<>>]
    /\ now = 40
    /\ sidebar = [date_from |-> 10, date_to |-> 40, risk_min |-> Milli(7000)]
    /\ view = [shown |-> FALSE]
    /\ pc = "store"
    /\ IdleScore
    /\ IdleRow
    /\ IdleUser
    /\ IdleAuth

\* save_user_inputs of a user session, first half: init_files finds the
\* file and pd.read_csv reads it
UserRead(u) ==
    /\ usess[u].pc = "idle"
    /\ usess' = [usess EXCEPT ![u] = [pc |-> "read", df |-> file]]
    /\ UNCHANGED <<file, cache, backups, audit, admin_op, saved, deleted>>
    /\ UNCHANGED <<scoreVars, labelVars, rowVars, aggVars, userVars,
                   authVars>>

\* second half: the row is appended to the frame read and the frame is
\* written over the file
UserWrite(u) ==
    /\ usess[u].pc = "read"
    /\ file' = save_user_inputs(usess[u].df, UserRow(u))
    /\ usess' = [usess EXCEPT ![u] = [pc |-> "done", df |-> <<>>]]
    /\ saved' = saved \cup {UserRow(u).id}
    /\ UNCHANGED <<cache, backups, audit, admin_op, deleted>>
    /\ UNCHANGED <<scoreVars, labelVars, rowVars, aggVars, userVars,
                   authVars>>

\* one run of admin_dashboard with the User Inputs tab open: the sidebar's
\* Refresh, the cached load, the date slice, the tab's filters, the upload
\* branch, and the editor or the row-level fallback with the button pressed
AdminTab(trigger, email_filter, min_sleep, edit, sel, confirm, e_email, U) ==
    /\ pc = "store"
    /\ Len(backups) < MaxWrites
    \* a button can be pressed only where it is rendered
    /\ trigger = "save_table" => admin_op.editor_supported
    /\ trigger \in {"save_row", "delete_row"} => ~admin_op.editor_supported
    /\ LET c0 == IF trigger = "refresh" THEN EmptyCache ELSE cache
           inputs_df == IF c0.filled THEN c0.df ELSE _safe_load_inputs(file)
           inputs_win ==
               _date_slice([has_ts |-> TRUE, rows |-> inputs_df],
                           sidebar.date_from, sidebar.date_to).rows
           df == Filtered(inputs_win, email_filter, min_sleep, 120)
           up == IF trigger = "upload" THEN [some |-> TRUE, rows |-> U]
                 ELSE IF trigger = "clear_upload" THEN NoUpload
                 ELSE admin_op.up
           w_up == upload_csv(up, inputs_df, file)
           file1 == IF w_up = <<>> THEN file ELSE w_up[1].written
           w_btn ==
               IF trigger = "save_table"
               THEN save_table(Edited(df, edit), inputs_df, file1)
               ELSE IF trigger = "save_row"
               THEN save_row(sel, e_email, inputs_df, file1)
               ELSE IF trigger = "delete_row"
               THEN delete_row(sel, confirm, inputs_df, file1)
               ELSE <<>>
           writes == w_up \o w_btn
       IN  IF inputs_df = <<>>
           THEN /\ cache' = [filled |-> TRUE, df |-> inputs_df]
                /\ admin_op' =
                     [admin_op EXCEPT !.up = NoUpload, !.trigger = trigger,
                        !.inputs_df = inputs_df, !.shown = <<>>, !.sel = 0,
                        !.confirm = FALSE, !.writes = <<>>,
                        !.file_before = file, !.file_after = file,
                        !.backups_before = backups, !.audit_before = audit]
                /\ UNCHANGED <<file, backups, audit, deleted>>
           ELSE /\ sel \in 1..Len(inputs_df)
                /\ file' = IF writes = <<>> THEN file
                           ELSE writes[Len(writes)].written
                /\ cache' = IF writes = <<>>
                            THEN [filled |-> TRUE, df |-> inputs_df]
                            ELSE EmptyCache
                /\ backups' = backups \o Backed(writes)
                /\ audit' = audit \o Logged(writes)
                /\ deleted' = deleted \cup Dropped(writes, inputs_df)
                /\ admin_op' =
                     [admin_op EXCEPT !.up = up, !.trigger = trigger,
                        !.inputs_df = inputs_df, !.shown = df, !.sel = sel,
                        !.confirm = confirm, !.writes = writes,
                        !.file_before = file, !.file_after = file',
                        !.backups_before = backups, !.audit_before = audit]
    /\ UNCHANGED <<usess, saved>>
    /\ UNCHANGED <<scoreVars, labelVars, rowVars, aggVars, userVars,
                   authVars>>

\* the widget that caused the run decides which inputs matter: the email
\* filter and the editor's content for the inline save, the selected row
\* for the delete (no file grows beyond the seeded rows and one row of
\* every user session); the other widgets are at their defaults (no email
\* filter, sleep between 0 and 12 hours, the first row selected)
NextStore ==
    \/ \E u \in Sessions : UserRead(u)
    \/ \E u \in Sessions : UserWrite(u)
    \/ \E trigger \in {"view", "refresh", "clear_upload"} :
          AdminTab(trigger, "", 0, "none", 1, FALSE, "a@x", <<>>)
    \/ \E U \in Uploads :
          AdminTab("upload", "", 0, "none", 1, FALSE, "a@x", U)
    \/ \E email_filter \in {"", "a"}, edit \in {"none", "drop"} :
          AdminTab("save_table", email_filter, 0, edit, 1, FALSE, "a@x",
                   <<>>)
    \/ AdminTab("save_row", "", 0, "none", 1, FALSE, "c@x", <<>>)
    \/ \E sel \in 1..(Len(SeedFile) + Cardinality(Sessions)),
          confirm \in BOOLEAN :
          AdminTab("delete_row", "", 0, "none", sel, confirm, "a@x", <<>>)

SpecStore == InitStore /\ [][NextStore]_vars

Next ==
    NextScore \/ NextLabel \/ NextRow \/ NextAgg \/ NextUser \/ NextAuth
    \/ NextRace \/ NextStore

Spec == SpecScore

(* ============================== claims ================================ *)
LevelKeys == {"stress_level", "anxiety_level", "depression_level"}
NumberKeys == LevelKeys \cup {"sleep_hours"}
YesNoKeys == {"past_mental_illness", "current_medication"}
LifestyleKeys == StripFields \cup YesNoKeys

Returned == pc \in {"scored", "done"}

\* the value is a Python number / a string
IsNumber(v) == v.t \in {"int", "nan"}
IsText(v) == v.t = "str"

\* the number a numeric attribute stands for: itself, the number a numeric
\* text spells, and 0 when it is missing or does not parse
Unparseable(v) ==
    \/ v.t \in {"missing", "none"}
    \/ v.t = "str" /\ v.s \notin DOMAIN NumText
NumberOf(v) ==
    IF v.t = "int" THEN v.n
    ELSE IF v.t = "str" /\ v.s \in DOMAIN NumText THEN NumText[v.s]
    ELSE 0

Clamp(v, lo, hi) == IF v < lo THEN lo ELSE IF v > hi THEN hi ELSE v
Dist(a, b) == IF a < b THEN b - a ELSE a - b

\* the value is literally one of the texts / is one of them once its
\* surrounding whitespace is removed
Literally(v, S) == v.t = "str" /\ ~v.pad /\ v.s \in S
Stripped(v, S) == v.t = "str" /\ v.s \in S

\* C1: for numeric levels and sleep (negative and above-range included)
\* and string lifestyle fields, compute_risk_score returns a score r with
\* 0.0 <= r <= 10.0
C1_ScoreInRange ==
    (/\ pc # "call"
     /\ \A k \in NumberKeys : IsNumber(form_data[k])
     /\ \A k \in LifestyleKeys : IsText(form_data[k]))
    => (/\ pc # "raised"
        /\ ~score.nan
        /\ 0 <= score.c
        /\ score.c <= 1000)

\* a submission with a negative and two above-range levels and string
\* lifestyle fields has been scored
C1_Witness ==
    /\ pc = "scored"
    /\ form_data.stress_level = MkInt(0 - 1)
    /\ form_data.anxiety_level = MkInt(11)
    /\ form_data.depression_level = MkInt(11)
    /\ \A k \in LifestyleKeys : IsText(form_data[k])
    /\ ~raised

\* C2: the returned score is clamp(base + clamp(nudges, -1.0, +1.0), 0.0,
\* 10.0) rounded to one decimal place, with base = 0.45*stress +
\* 0.35*anxiety + 0.20*depression; the nudge sum is clamped before it is
\* added to base
C2_ScoreFormula ==
    /\ (Returned /\ \A k \in LevelKeys : form_data[k].t # "nan")
       => LET b == 45 * NumberOf(form_data.stress_level)
                   + 35 * NumberOf(form_data.anxiety_level)
                   + 20 * NumberOf(form_data.depression_level)
              x == Clamp(b + Clamp(nudges.c, 0 - 100, 100), 0, 1000)
          IN  /\ base = F(b)
              /\ ~score.nan
              /\ score.c % 10 = 0
              /\ Dist(score.c, x) <= 5
    /\ (pc # "call" /\ \A k \in LifestyleKeys :
                          form_data[k].t \in {"str", "missing", "none"})
       => pc # "raised"

\* a submission whose nudges sum to +1.6 on a base of 0 has been scored 1.0
C2_Witness ==
    /\ pc = "scored"
    /\ base = F(0)
    /\ nudges = F(160)
    /\ score = F(100)

\* the per-field table of the nudges, each lifestyle value matched by M
TableSum(fd, M(_, _)) ==
    LET sleep == NumberOf(fd.sleep_hours)
    IN  (IF sleep < 6 THEN 40 ELSE IF 7 <= sleep /\ sleep <= 9 THEN 0 - 20
         ELSE 0)
      + (IF M(fd.exercise_freq, {"None"}) THEN 20
         ELSE IF M(fd.exercise_freq, {"3-5 days/week", "Daily"}) THEN 0 - 20
         ELSE 0)
      + (IF M(fd.diet_quality, {"Poor"}) THEN 20
         ELSE IF M(fd.diet_quality, {"Good", "Excellent"}) THEN 0 - 10
         ELSE 0)
      + (IF M(fd.work_life_balance, {"Poor"}) THEN 30
         ELSE IF M(fd.work_life_balance, {"Good", "Excellent"}) THEN 0 - 10
         ELSE 0)
      + (IF M(fd.social_interaction, {"Rarely"}) THEN 20
         ELSE IF M(fd.social_interaction, {"Often", "Daily"}) THEN 0 - 10
         ELSE 0)
      + (IF Literally(fd.past_mental_illness, {"Yes"}) THEN 20 ELSE 0)
      + (IF Literally(fd.current_medication, {"Yes"}) THEN 10 ELSE 0)

\* C3 as stated: the unclamped nudge sum is the sum of the per-field
\* table, a field contributing only when its value is one of the listed
\* texts and 0 for every other value
C3_TableLiteral == Returned => nudges = F(TableSum(form_data, Literally))

\* C3 as amended: the unclamped nudge sum is the sum of the per-field
\* table, where exercise, diet, work-life and social values are compared
\* after their leading and trailing whitespace is removed
C3_TableStripped == Returned => nudges = F(TableSum(form_data, Stripped))

\* a submission whose exercise value is "None" with surrounding whitespace
\* and whose work-life value is "Poor" has been scored
C3_Witness ==
    /\ pc = "scored"
    /\ form_data.exercise_freq = Padded("None")
    /\ form_data.work_life_balance = MkStr("Poor")
    /\ form_data.past_mental_illness = Padded("Yes")

\* C4: compute_risk_score returns a score and raises no error, whatever
\* fields are missing and whatever the type or value of each present field
C4_NeverRaises == pc # "raised"

\* C5: a level that is missing or does not parse as a number is treated as
\* 0.0: the returned score is the score of the same submission with that
\* level set to 0
C5_UnparseableIsZero ==
    Returned =>
        \A k \in LevelKeys :
            Unparseable(form_data[k]) =>
                LET zeroed == [form_data EXCEPT ![k] = MkInt(0)]
                    r == compute_risk_score(zeroed, ulp)
                IN  ~r.raised /\ score = r.score

\* a submission with an unparseable stress text, a None anxiety and a
\* missing depression level, and a numeric text elsewhere, has been scored
C5_Witness ==
    /\ pc = "scored"
    /\ form_data.stress_level = MkStr("abc")
    /\ form_data.anxiety_level = PyNone
    /\ form_data.depression_level = Missing

\* the order Low < Moderate < High
Tier(l) == IF l = "Low" THEN 1 ELSE IF l = "Moderate" THEN 2 ELSE 3

\* C6: the label of a score is "High" from 7 up, "Moderate" from 4 up to
\* but excluding 7, and "Low" below 4
C6_LabelIntervals ==
    \A i \in {1, 2} :
        labels[i] # "" =>
            /\ xy[i].c >= 700 => labels[i] = "High"
            /\ (400 <= xy[i].c /\ xy[i].c < 700) => labels[i] = "Moderate"
            /\ xy[i].c < 400 => labels[i] = "Low"

\* the scores 7.0 and 4.0 have been labelled
C6_Witness ==
    /\ xy = <<F(700), F(400)>>
    /\ labels = <<"High", "Moderate">>

\* C7: for scores x <= y the tier of label(x) is at most the tier of
\* label(y)
C7_LabelMonotonic ==
    (labels[1] # "" /\ labels[2] # "" /\ xy[1].c <= xy[2].c)
    => Tier(labels[1]) <= Tier(labels[2])

\* a score below 4 and a score above 7 have both been labelled
C7_Witness ==
    /\ xy = <<F(390), F(710)>>
    /\ labels[1] # ""
    /\ labels[2] # ""

\* stress = anxiety = depression = 10, sleep < 6 and every lifestyle field
\* at its positive-nudge value
IsMaximal(fd) ==
    /\ \A k \in LevelKeys : fd[k] = MkInt(10)
    /\ fd.sleep_hours.t = "int" /\ fd.sleep_hours.n < 6
    /\ fd.exercise_freq = MkStr("None")
    /\ fd.diet_quality = MkStr("Poor")
    /\ fd.work_life_balance = MkStr("Poor")
    /\ fd.social_interaction = MkStr("Rarely")
    /\ fd.past_mental_illness = MkStr("Yes")
    /\ fd.current_medication = MkStr("Yes")

\* C8 as stated: for the maximal submission the nudges sum to +1.4, are
\* clamped to +1.0, and the score is 10.0
C8_MaximalSum14 ==
    (pc # "call" /\ IsMaximal(form_data))
    => (/\ pc # "raised"
        /\ nudges = F(140)
        /\ ClampNudges(nudges) = F(100)
        /\ score = F(1000))

\* C8 as amended: for the maximal submission the nudges sum to +1.6, are
\* clamped to +1.0, and the score is 10.0
C8_MaximalSum16 ==
    (pc # "call" /\ IsMaximal(form_data))
    => (/\ pc # "raised"
        /\ nudges = F(160)
        /\ ClampNudges(nudges) = F(100)
        /\ score = F(1000))

\* the maximal submission has been scored
C8_Witness == pc = "scored" /\ IsMaximal(form_data) /\ score = F(1000)

\* all three levels are 0, sleep is not below 6 and no lifestyle value
\* triggers a positive nudge
IsNeutralZero(fd) ==
    /\ \A k \in LevelKeys : fd[k] = MkInt(0)
    /\ fd.sleep_hours.t = "int" /\ fd.sleep_hours.n >= 6
    /\ \A k \in LifestyleKeys :
           /\ fd[k].t \in {"str", "missing", "none"}
           /\ ~Stripped(fd[k], {"None", "Poor", "Rarely", "Yes"})

\* C9: with all levels 0 and no positive nudge the score is exactly 0.0,
\* also when negative nudges apply
C9_NeutralZero ==
    (pc # "call" /\ IsNeutralZero(form_data))
    => (pc # "raised" /\ score = F(0))

\* a zero-level submission with negative nudges has been scored
C9_Witness ==
    /\ pc = "scored"
    /\ IsNeutralZero(form_data)
    /\ nudges.c < 0

\* the worked example of the specification
Example ==
    Submission(MkInt(8), MkInt(6), MkInt(5), MkInt(5), MkStr("None"),
               MkStr("Average"), MkStr("Fair"), MkStr("Sometimes"),
               MkStr("No"), MkStr("No"))

\* C10: the worked example has base 6.7, nudge sum 0.6, score 7.3 and
\* label "High"
C10_WorkedExample ==
    (form_data = Example /\ pc # "call")
    => (/\ pc # "raised"
        /\ base = F(670)
        /\ nudges = F(60)
        /\ score = F(730)
        /\ pc = "done" => risk_label = "High")

\* the worked example has been scored and labelled
C10_Witness == pc = "done" /\ form_data = Example

\* C11: the risk the admin aggregation computes for a submission's row
\* equals the score the Risk Scorer returns for the same submission
C11_AggregatorUsesScorer == pc = "compared" => row_risk = MilliOf(score)

\* C12: for every risk value in [0,10], boundaries 4 and 7 included, the
\* analytics bucket is the tier of the per-submission label
C12_BucketIsLabel ==
    (bucket # "" /\ labels[1] # "") => bucket = labels[1]

(* ------------------------ claims on the aggregator -------------------- *)
\* the store has the timestamp column of the submission schema and the
\* admin page has run
Shown == view.shown /\ csv.has_ts

\* the positions of the stored rows whose timestamp parses to a date of
\* the window, both ends included
InWindow ==
    {i \in 1..Len(csv.rows) :
        /\ csv.rows[i].ts.ok
        /\ sidebar.date_from <= csv.rows[i].ts.t
        /\ csv.rows[i].ts.t <= sidebar.date_to}

Timestamped == [csv EXCEPT !.rows = SelectSeq(csv.rows, LAMBDA r : r.ts.ok)]

\* a view with the alerts as rows instead of positions in the store
AsRows(v, df) ==
    [v EXCEPT !.alerts = [i \in 1..Len(v.alerts) |-> df.rows[v.alerts[i]]]]

ZeroRisk(row) ==
    LET z(cell) == IF cell.ok THEN cell.t ELSE 0
        m == 45 * z(row.stress_level) + 35 * z(row.anxiety_level)
             + 20 * z(row.depression_level)
    IN  IF m > 10000 THEN 10000 ELSE m

ZeroRiskAt(i) == ZeroRisk(csv.rows[i])

RECURSIVE ZeroSum(_)
ZeroSum(S) ==
    IF S = {} THEN 0
    ELSE LET x == CHOOSE y \in S : TRUE
         IN  ZeroRiskAt(x) + ZeroSum(S \ {x})

\* v is the mean of the zero-filled risks of the rows at the positions S,
\* up to the rounding to two decimals
IsZeroMean(v, S) ==
    /\ ~v.nan
    /\ Dist(Cardinality(S) * v.c, ZeroSum(S)) <= 5 * Cardinality(S)

ZeroTier(i) ==
    IF ZeroRiskAt(i) <= 4000 THEN "Low"
    ELSE IF ZeroRiskAt(i) <= 7000 THEN "Moderate" ELSE "High"

\* C16: a row with a non-numeric level is aggregated with that level taken
\* as zero: it has a risk, counts in the windowed mean and the per-day
\* mean, and falls in a Low/Moderate/High bucket
C16_NonNumericIsZero ==
    (Shown /\ InWindow # {})
    => (/\ view.avg_risk.some
        /\ IsZeroMean(view.avg_risk.v, InWindow)
        /\ \A p \in view.per_day_mean :
              IsZeroMean(p.mean,
                         {i \in InWindow : csv.rows[i].ts.t = p.date})
        /\ \A i \in InWindow :
              \E m \in view.mix :
                 /\ m.date = csv.rows[i].ts.t
                 /\ m.bucket = ZeroTier(i))

\* the count a day's mix gives for a bucket
MixCount(d, b) ==
    IF \E m \in view.mix : m.date = d /\ m.bucket = b
    THEN (CHOOSE m \in view.mix : m.date = d /\ m.bucket = b).count
    ELSE 0

\* C17: on every day of the window the Low, Moderate and High counts sum
\* to the day's submission count, and no other bucket appears
C17_ThreeBuckets ==
    Shown
    => (/\ \A m \in view.mix : m.bucket \in {"Low", "Moderate", "High"}
        /\ \A p \in view.per_day_count :
              MixCount(p.date, "Low") + MixCount(p.date, "Moderate")
              + MixCount(p.date, "High") = p.n)

\* the positions of the stored rows with a parseable timestamp in the
\* trailing thirty days, and those of one email
Recent == {i \in 1..Len(csv.rows) :
             csv.rows[i].ts.ok /\ csv.rows[i].ts.t >= now - 30}
RecentOf(e) == {i \in Recent : csv.rows[i].email = e}
WithRisk(S) == {i \in S : ~_compute_risk(csv.rows[i]).nan}

RECURSIVE RiskSum(_)
RiskSum(S) ==
    IF S = {} THEN 0
    ELSE LET x == CHOOSE y \in S : TRUE
         IN  _compute_risk(csv.rows[x]).c + RiskSum(S \ {x})

\* v is the mean risk of the rows at the positions S (those that have a
\* risk), up to the rounding to two decimals
IsRiskMean(v, S) ==
    IF WithRisk(S) = {} THEN v.nan
    ELSE /\ ~v.nan
         /\ Dist(Cardinality(WithRisk(S)) * v.c, RiskSum(WithRisk(S)))
              <= 5 * Cardinality(WithRisk(S))

\* C18: the ranking has one entry per email of the submissions of the
\* trailing thirty days, valued with the mean risk of that email's
\* submissions of the period, in non-increasing order
C18_RankingPerEmail ==
    Shown
    => (/\ {view.ranking[k].User : k \in 1..Len(view.ranking)}
             = {csv.rows[i].email : i \in Recent}
        /\ \A k, l \in 1..Len(view.ranking) :
              k # l => view.ranking[k].User # view.ranking[l].User
        /\ \A k \in 1..Len(view.ranking) :
              IsRiskMean(view.ranking[k].AvgRisk, RecentOf(view.ranking[k].User))
        /\ \A k, l \in 1..Len(view.ranking) :
              (k < l /\ ~view.ranking[k].AvgRisk.nan /\ ~view.ranking[l].AvgRisk.nan)
              => view.ranking[k].AvgRisk.c >= view.ranking[l].AvgRisk.c)

\* all in-window submissions have the same risk value, TheRisk
SameRisk ==
    /\ InWindow # {}
    /\ \A i, j \in InWindow :
          /\ ~_compute_risk(csv.rows[i]).nan
          /\ _compute_risk(csv.rows[i]) = _compute_risk(csv.rows[j])
TheRisk == _compute_risk(csv.rows[CHOOSE i \in InWindow : TRUE])

WindowDates == {csv.rows[i].ts.t : i \in InWindow}

\* C19 as stated: when all in-window submissions have the same risk c,
\* the per-day mean series has exactly their days and the value c on each
C19_ConstantMean ==
    (Shown /\ SameRisk)
    => (/\ {p.date : p \in view.per_day_mean} = WindowDates
        /\ \A p \in view.per_day_mean : p.mean = TheRisk)

\* C19: when all in-window submissions have the same risk c, the per-day
\* mean series has exactly their days, one value a day, and that value is
\* c rounded to two decimals
C19_ConstantMeanRounded ==
    (Shown /\ SameRisk)
    => (/\ {p.date : p \in view.per_day_mean} = WindowDates
        /\ \A p, q \in view.per_day_mean : p.date = q.date => p = q
        /\ \A p \in view.per_day_mean :
              /\ ~p.mean.nan
              /\ p.mean.c % 10 = 0
              /\ Dist(p.mean.c, TheRisk.c) <= 5)

\* two submissions of risk 6.7 on two days of the window
C19_Witness ==
    /\ Shown
    /\ SameRisk
    /\ TheRisk = Milli(6700)
    /\ WindowDates = {20, 40}
    /\ Cardinality(view.per_day_mean) = 2

(* ------------------------ claims on the user page --------------------- *)
\* the number of rows of the store saved for an assessment
RowsFor(k) == Cardinality({i \in 1..Len(user_inputs) : user_inputs[i] = k})

\* C20: an assessment submitted once has one row in the store however
\* often user_dashboard reruns afterwards in the session: a run that is
\* not a form submission appends no row for the persisted assessment
C20_OneRowPerAssessment ==
    \A k \in 1..MaxRuns : RowsFor(k) <= 1

(* ------------------------- claims on the accounts --------------------- *)
\* the rows of a users file whose email equals e once both are trimmed and
\* lower-cased
SameEmail(f, e) == {i \in 1..Len(f.rows) : Norm[f.rows[i].email] = Norm[e]}

\* C21: register_user adds a row only if no stored email equals the new
\* one after trimming and lower-casing, otherwise it returns (False,
\* "User already exists!") and leaves the file as it was; so from an
\* empty file no two rows ever share a normalised email
C21_RegisterUnique ==
    /\ \A i, j \in 1..Len(users.rows) :
          i # j => Norm[users.rows[i].email] # Norm[users.rows[j].email]
    /\ auth_ret.op = "register" =>
          IF SameEmail(auth_ret.before, auth_ret.email) # {}
          THEN /\ ~auth_ret.success
               /\ auth_ret.msg = "User already exists!"
               /\ users = auth_ret.before
          ELSE /\ auth_ret.success
               /\ Len(users.rows) = Len(auth_ret.before.rows) + 1
               /\ SubSeq(users.rows, 1, Len(auth_ret.before.rows))
                    = auth_ret.before.rows
               /\ Norm[users.rows[Len(users.rows)].email] = Norm[auth_ret.email]

\* " A@X " is refused after a@x was registered
C21_Witness ==
    /\ auth_ret.op = "register"
    /\ auth_ret.email = " A@X "
    /\ ~auth_ret.success
    /\ Len(users.rows) = 1
    /\ users.rows[1].email = "a@x"

\* the rows that match a login: same email once trimmed and lower-cased,
\* same password exactly
Matches(f, e, p) == {i \in SameEmail(f, e) : f.rows[i].password = p}

\* C22: authenticate_user returns the role and name of the first row that
\* matches, None when no row matches or there is no users file; the login
\* page sets logged_in, role, name and email only for a result that is
\* not None
C22_Authenticate ==
    auth_ret.op = "login" =>
       LET m == Matches(users, auth_ret.email, auth_ret.password)
       IN  IF ~users.exists \/ m = {}
           THEN /\ ~auth_ret.result.some
                /\ auth_session = auth_ret.before
           ELSE /\ auth_ret.result.some
                /\ \E i \in m :
                      /\ \A j \in m : i <= j
                      /\ auth_ret.result.role = users.rows[i].role
                      /\ auth_ret.result.name = users.rows[i].name
                      /\ auth_session = [logged_in |-> TRUE,
                                         role |-> users.rows[i].role,
                                         name |-> users.rows[i].name,
                                         email |-> auth_ret.email]

\* two rows match the login and the first one, an admin, is returned
C22_Witness ==
    /\ auth_ret.op = "login"
    /\ auth_ret.email = " A@X "
    /\ Cardinality(Matches(users, auth_ret.email, auth_ret.password)) = 2
    /\ users.rows[1].role = "admin"
    /\ users.rows[2].role = "user"
    /\ auth_session.logged_in
    /\ auth_session.role = "admin"

\* C29: when two sessions register emails that are equal after trimming
\* and lower-casing, in any interleaving, at most one call returns success
\* and the users file ends with at most one row for that email
C29_ConcurrentUnique ==
    (\A s \in Sessions : reg[s].pc = "done")
    => \A s1, s2 \in Sessions :
          (s1 # s2 /\ Norm[reg[s1].email] = Norm[reg[s2].email])
          => (/\ ~(reg[s1].success /\ reg[s2].success)
              /\ Cardinality(SameEmail(users, reg[s1].email)) <= 1)

(* --------------------------- claims on the form ----------------------- *)
\* the level of the nudge table an option of the form stands for
OptionLevel ==
    [o \in ExerciseOptions \cup SocialOptions \cup YesNoOptions |-> o]
    @@ ("Poor[red circle]" :> "Poor") @@ ("Average[orange circle]" :> "Average")
    @@ ("Good[green circle]" :> "Good") @@ ("Excellent[blue circle]" :> "Excellent")
    @@ ("Poor [red circle]" :> "Poor") @@ ("Fair [orange circle]" :> "Fair")
    @@ ("Good [green circle]" :> "Good")
    @@ ("Excellent [blue circle]" :> "Excellent")

ByLevel(v, S) == v.t = "str" /\ OptionLevel[v.s] \in S

\* C30: a submission made with the form gets, for each of exercise, diet,
\* work-life balance and social interaction, the nudge the table assigns
\* to the level of the option chosen (Poor diet +0.2, Poor work-life +0.3,
\* Good or Excellent diet or work-life -0.1)
C30_FormOptionNudges ==
    (pc \in {"scored", "done"} /\ form_data \in FormSubmissions)
    => nudges = F(TableSum(form_data, ByLevel))

\* C27: a run of user_dashboard writes a row only if the consent checkbox
\* is checked in it; a run with the checkbox unchecked writes no row and
\* still computes the risk score and the label of the session's submission
C27_ConsentGatesSave ==
    [][ /\ user_inputs' # user_inputs => session_state'.mp_consent = "on"
        /\ (runs' # runs /\ session_state'.mp_consent = "off")
           => (/\ user_inputs' = user_inputs
               /\ score' = compute_risk_score(form_data', ulp).score
               /\ score'.c \in 0..1000
               /\ risk_label' = IF score'.c >= 700 THEN "High"
                                ELSE IF score'.c >= 400 THEN "Moderate"
                                ELSE "Low") ]_vars

\* consent was withdrawn after the first save and the page has run since:
\* one row, score 6.7, label Moderate
C27_Witness ==
    /\ session_state.mp_consent = "off"
    /\ runs >= 3
    /\ Len(user_inputs) = 1
    /\ score = F(670)
    /\ risk_label = "Moderate"

(* ----------------- claims about the submission store ------------------ *)
\* the rows of a file, as a set
RowsOf(f) == {f[i] : i \in 1..Len(f)}
\* the last admin run pressed this button with the tab's content rendered
Pressed(trigger) == admin_op.trigger = trigger /\ admin_op.inputs_df # <<>>
WritesOf(kind) ==
    {i \in 1..Len(admin_op.writes) : admin_op.writes[i].kind = kind}

\* C23: every write the admin's User Inputs tab makes to the submission
\* store (upload, inline save, row edit, row delete) is preceded by a
\* backup, recorded in the session's backups, that holds the store's
\* contents as they were immediately before that write
C23_BackupBeforeWrite ==
    LET n0 == Len(admin_op.backups_before)
    IN  /\ Len(backups) = n0 + Len(admin_op.writes)
        /\ \A i \in 1..Len(admin_op.writes) :
              backups[n0 + i] = admin_op.writes[i].before

\* C24: after an inline table save, every stored submission that the
\* editor did not show (outside the date window, excluded by the email or
\* sleep filter, or without a parseable timestamp) is still in the store,
\* unchanged
C24_InlineSaveInPlace ==
    Pressed("save_table")
    => \A r \in RowsOf(admin_op.file_before) :
          r.id \notin Ids(admin_op.shown) => r \in RowsOf(admin_op.file_after)

\* C25: every write the admin's User Inputs tab makes to the submission
\* store appends one entry to the session's audit log (the log lives in the
\* session alone: no write of the model puts it in a file)
C25_AuditPerWrite ==
    Len(audit) = Len(admin_op.audit_before) + Len(admin_op.writes)

C28_NoLostSubmission == (saved \ deleted) \subseteq Ids(file)

====
